---- MODULE Spec2Model ----
(***************************************************************************)
(* A model of the ims-viewer extension host: the user actions it handles  *)
(* (commands and webview messages), the child processes those actions     *)
(* spawn, the events of those processes, and the messages and             *)
(* notifications the handlers produce.                                    *)
(***************************************************************************)
EXTENDS Integers, Sequences, FiniteSets, TLC

\* Number of user actions (commands invoked, webview messages received) in a run.
MaxActions == 1

\* Number of user actions in a run in which the user also opens panels and
\* changes the settings.
MaxEnvActions == 2

\* A field that is not present (undefined in the TypeScript code).
Absent == "<absent>"

VARIABLES
    acts,      \* the user actions handled so far, in order of arrival
    env,       \* process.env of the extension host (the IMS_* variables)
    settings,  \* the imsViewer.* settings
    panels,    \* the webview panels created so far, in order of creation
    providerPanel, \* the _panel field of each webview provider (0: undefined)
    call       \* the call of data_analysis_service.py being looked at

vars == <<acts, env, settings, panels, providerPanel, call>>

\* No call of the service is looked at.
NoCall == [fn |-> Absent]

----------------------------------------------------------------------------
\* Settings and process.env

DefaultSettings ==
    [databaseName |-> "ims_database", mongoUri |-> "mongodb://localhost:27017/",
     mongoUsername |-> "", mongoPassword |-> "", mongoAuthDatabase |-> "admin"]

\* Settings the user may have configured.
SettingsProfiles ==
    { DefaultSettings,
      [databaseName |-> "", mongoUri |-> "mongodb://db:27017/",
       mongoUsername |-> "alice", mongoPassword |-> "secret", mongoAuthDatabase |-> ""] }

\* process.env when the extension host starts: no IMS_* variable is set.
InitialEnv ==
    [IMS_DB_NAME |-> Absent, IMS_MONGO_URI |-> Absent, IMS_MONGO_USERNAME |-> Absent,
     IMS_MONGO_PASSWORD |-> Absent, IMS_MONGO_AUTH_DB |-> Absent]

getDatabaseName(s) == IF s.databaseName # "" THEN s.databaseName ELSE "ims_database"

setDatabaseConfigEnv(e, s) ==
    [IMS_DB_NAME        |-> getDatabaseName(s),
     IMS_MONGO_URI      |-> s.mongoUri,
     IMS_MONGO_USERNAME |-> IF s.mongoUsername # "" THEN s.mongoUsername ELSE e.IMS_MONGO_USERNAME,
     IMS_MONGO_PASSWORD |-> IF s.mongoPassword # "" THEN s.mongoPassword ELSE e.IMS_MONGO_PASSWORD,
     IMS_MONGO_AUTH_DB  |-> IF s.mongoAuthDatabase # "" THEN s.mongoAuthDatabase ELSE e.IMS_MONGO_AUTH_DB]

----------------------------------------------------------------------------
\* Child processes, their output, and the messages posted to a webview

\* What a script that was started ends with: a non-zero exit code, or exit
\* code 0 and a stdout that is
\*   okTrue      a JSON object with success = true and data
\*   okFalseStr  a JSON object with success = false and an error string
\*   okFalseObj  a JSON object with success = false and an error object
\*               {code, message, details}
\*   noisy       a JSON object (success = true) surrounded by other text
\*   garbage     text that is not JSON
\*   empty       nothing
\*   any         whatever it is (the handler does not read it)
ZeroOuts == {"okTrue", "okFalseStr", "okFalseObj", "noisy", "garbage", "empty", "any"}
Outs == ZeroOuts \cup {"nonzero"}

\* JSON.parse(stdout.trim()) succeeds
Parses(out) == out \in {"okTrue", "okFalseStr", "okFalseObj"}

\* result.success, result.error, result.data of the parsed output
ResultSuccess(out) == IF out = "okTrue" THEN "true" ELSE "false"
ResultError(out) ==
    CASE out = "okFalseStr" -> "string"
      [] out = "okFalseObj" -> "object"
      [] OTHER -> Absent
ResultData(out) == IF out = "okTrue" THEN "json" ELSE Absent

\* A child process: the handler that spawned it, the script and arguments,
\* the environment it was given, how it was started (spawn or exec), whether
\* a timeout was set for it, and its state: running, errored (the 'error'
\* event was emitted), closed.
Proc(h, script, args, e, via, timeout) ==
    [h |-> h, script |-> script, args |-> args, env |-> e, via |-> via,
     timeout |-> timeout, st |-> "running", out |-> Absent]

\* A message posted to a webview with panel.webview.postMessage.
Msg(cmd, success, error, data, message, rid) ==
    [cmd |-> cmd, success |-> success, error |-> error, data |-> data,
     message |-> message, rid |-> rid]

\* A user action being handled: where it came from (a command, or the panel
\* whose webview sent the message), its command and inputs, the processes
\* spawned for it, the messages posted for it and the notifications shown.
Action(src, cmd, inp) ==
    [src |-> src, cmd |-> cmd, inp |-> inp, procs |-> <<>>, posts |-> <<>>,
     notes |-> <<>>]

Post(a, m) == [a EXCEPT !.posts = Append(@, m)]
Note(a, n) == [a EXCEPT !.notes = Append(@, n)]
Spawn(a, p) == [a EXCEPT !.procs = Append(@, p)]

Last(s) == s[Len(s)]
SetLast(a, st, out) ==
    [a EXCEPT !.procs[Len(a.procs)].st = st, !.procs[Len(a.procs)].out = out]

----------------------------------------------------------------------------
\* Table panel: loadTableData, handleCrudOperation

loadTableData(a, e) ==
    Spawn(Post(a, Msg("loading", Absent, Absent, "true", Absent, 0)),
          Proc("loadTableData", "query_table_data.py", <<"--type", "table", "--name", a.inp.name>>,
               e, "spawn", FALSE))

loadTableDataOnError(a) ==
    Post(a, Msg("error", Absent, Absent, "string", Absent, 0))

\* The close handler cuts the first balanced {...} out of stdout before parsing.
loadTableDataParses(out) == Parses(out) \/ out = "noisy"

loadTableDataOnClose(a, out) ==
    LET b == Post(a, Msg("loading", Absent, Absent, "false", Absent, 0))
    IN  IF out # "nonzero" /\ loadTableDataParses(out)
        THEN Post(b, Msg("data", Absent, Absent, "json", Absent, 0))
        ELSE Post(b, Msg("error", Absent, Absent, "string", Absent, 0))

CrudOperation(cmd) ==
    CASE cmd = "addRecord" -> "add"
      [] cmd = "updateRecord" -> "update"
      [] cmd = "deleteRecord" -> "delete"

\* A handler that asks for the reload at once, without waiting for the
\* operation to succeed.
handleCrudOperationReloadingAtOnce(a, e) ==
    loadTableData(
        Spawn(a, Proc("handleCrudOperation", "crud_operations.py",
                      <<"--table", a.inp.name, "--operation", CrudOperation(a.cmd), "--data", "json">>,
                      e, "spawn", FALSE)), e)

handleCrudOperation(a, e) ==
    Spawn(a, Proc("handleCrudOperation", "crud_operations.py",
                  <<"--table", a.inp.name, "--operation", CrudOperation(a.cmd), "--data", "json">>,
                  e, "spawn", FALSE))

handleCrudOperationOnError(a) ==
    Post(a, Msg("operationResult", "false", Absent, Absent, "string", 0))

CrudResultCommand(operation) ==
    CASE operation = "delete" -> "recordDeleted"
      [] operation = "update" -> "recordUpdated"
      [] operation = "create" -> "recordSaved"
      [] OTHER -> "operationResult"

handleCrudOperationOnClose(a, out, e) ==
    IF out # "nonzero" /\ Parses(out)
    THEN LET b == Post(a, Msg(CrudResultCommand(CrudOperation(a.cmd)), ResultSuccess(out),
                              Absent, ResultData(out), "string", 0))
         IN  IF ResultSuccess(out) = "true" THEN loadTableData(b, e) ELSE b
    ELSE Post(a, Msg("error", Absent, Absent, Absent, "string", 0))

----------------------------------------------------------------------------
\* Business view panel: loadBusinessViewData

\* The views loadBusinessViewData knows, and the script of each. The code
\* knows a view by its Chinese title; here it is named after its script.
ViewScript(view) ==
    CASE view = "supplier_reconciliation" -> "business_view_supplier_reconciliation.py"
      [] view = "customer_reconciliation" -> "business_view_customer_reconciliation.py"
      [] view = "inventory_report" -> "business_view_inventory_report.py"
      [] view = "sales_report" -> "business_view_sales_report.py"
      [] view = "purchase_report" -> "business_view_purchase_report.py"
      [] view = "receivables_report" -> "business_view_receivables_report.py"
      [] view = "payables_report" -> "business_view_payables_report.py"
      [] OTHER -> Absent

ViewFormat(view) ==
    IF view \in {"receivables_report", "payables_report"} THEN "summary" ELSE "json"

\* params is passed on only by the 'filter' message.
ViewArgs(a) ==
    (IF a.cmd = "filter" /\ a.inp.params THEN <<"--start_date", "d">> ELSE <<>>)
        \o <<"--format", ViewFormat(a.inp.name)>>

loadBusinessViewData(a, e) ==
    IF ViewScript(a.inp.name) = Absent
    THEN Post(a, Msg("error", Absent, Absent, "string", Absent, 0))
    ELSE Spawn(Post(a, Msg("loading", Absent, Absent, "true", Absent, 0)),
               Proc("loadBusinessViewData", ViewScript(a.inp.name), ViewArgs(a), e, "spawn", FALSE))

loadBusinessViewDataOnError(a) ==
    Post(a, Msg("error", Absent, Absent, "string", Absent, 0))

\* A close listener that posts whatever a script that exited with 0 printed.
loadBusinessViewDataOnCloseUnparsed(a, out) ==
    LET b == Post(a, Msg("loading", Absent, Absent, "false", Absent, 0))
    IN  IF out # "nonzero"
        THEN Post(b, Msg("data", Absent, Absent, "json", Absent, 0))
        ELSE Post(b, Msg("error", Absent, Absent, "string", Absent, 0))

loadBusinessViewDataOnClose(a, out) ==
    LET b == Post(a, Msg("loading", Absent, Absent, "false", Absent, 0))
    IN  IF out # "nonzero" /\ Parses(out)
        THEN Post(b, Msg("data", Absent, Absent, "json", Absent, 0))
        ELSE Post(b, Msg("error", Absent, Absent, "string", Absent, 0))

----------------------------------------------------------------------------
\* Data analysis dashboard panel: handle*Request, runDataAnalysisScript

DashboardMethod(cmd) ==
    CASE cmd = "getDashboardData" -> "get_dashboard_summary"
      [] cmd = "getSalesTrend" -> "analyze_sales_trend"
      [] cmd = "getInventoryAnalysis" -> "analyze_inventory_turnover"
      [] cmd = "getCustomerAnalysis" -> "analyze_customer_value"
      [] cmd = "getPurchaseTrend" -> "analyze_purchase_trend"
      [] cmd = "getComparisonAnalysis" -> "generate_comparison_analysis"

DashboardResponse(cmd) ==
    CASE cmd = "getDashboardData" -> "dashboardData"
      [] cmd = "getSalesTrend" -> "salesTrendData"
      [] cmd = "getInventoryAnalysis" -> "inventoryAnalysisData"
      [] cmd = "getCustomerAnalysis" -> "customerAnalysisData"
      [] cmd = "getPurchaseTrend" -> "purchaseTrendData"
      [] cmd = "getComparisonAnalysis" -> "comparisonAnalysisData"

\* The handlers that read params.dimension while building the response.
DashboardReadsParams(cmd) == cmd \in {"getSalesTrend", "getPurchaseTrend"}

runDataAnalysisScript(a, e) ==
    Spawn(a, Proc("runDataAnalysisScript", "data_analysis_service.py",
                  <<"--method", DashboardMethod(a.cmd)>>
                      \o (IF a.inp.params THEN <<"--params", "json">> ELSE <<>>),
                  e, "spawn", FALSE))

DashboardFailure(a) ==
    Post(a, Msg(DashboardResponse(a.cmd), "false", "string", Absent, Absent, 0))

\* 'error' rejects the promise and the handler's catch posts the failure.
runDataAnalysisScriptOnError(a) == DashboardFailure(a)

\* A 'close' listener whose result is posted although 'error' has rejected
\* the promise before.
runDataAnalysisScriptOnCloseSettlingTwice(a, out, errored) ==
    IF DashboardReadsParams(a.cmd) /\ ~a.inp.params THEN DashboardFailure(a)
    ELSE IF out # "nonzero" /\ Parses(out)
    THEN Post(a, Msg(DashboardResponse(a.cmd), ResultSuccess(out), ResultError(out),
                     ResultData(out), Absent, 0))
    ELSE Post(a, Msg(DashboardResponse(a.cmd), "false", "string", Absent, Absent, 0))

\* 'close' resolves the promise (to no effect when 'error' rejected it
\* before); the handler posts the result, or the failure when building the
\* response throws because params is undefined.
runDataAnalysisScriptOnClose(a, out, errored) ==
    IF errored THEN a
    ELSE IF DashboardReadsParams(a.cmd) /\ ~a.inp.params THEN DashboardFailure(a)
    ELSE IF out # "nonzero" /\ Parses(out)
    THEN Post(a, Msg(DashboardResponse(a.cmd), ResultSuccess(out), ResultError(out),
                     ResultData(out), Absent, 0))
    ELSE Post(a, Msg(DashboardResponse(a.cmd), "false", "string", Absent, Absent, 0))

handleDashboardExportRequest(a) ==
    Post(a, Msg("exportResult", "true", Absent, Absent, "string", 0))

----------------------------------------------------------------------------
\* Inventory management panel: handle*Load, runPython, inventoryAction

InventoryLoads ==
    {"load_inventory_data", "load_purchase_orders", "load_sales_orders",
     "load_suppliers", "load_customers", "load_materials"}

InventoryScript(cmd) ==
    CASE cmd = "load_inventory_data" -> "business_view_inventory_report.py"
      [] cmd = "load_purchase_orders" -> "business_view_purchase_report.py"
      [] cmd = "load_sales_orders" -> "business_view_sales_report.py"
      [] OTHER -> "query_table_data.py"

InventoryArgs(cmd) ==
    CASE cmd = "load_suppliers" -> <<"--type", "table", "--name", "suppliers">>
      [] cmd = "load_customers" -> <<"--type", "table", "--name", "customers">>
      [] cmd = "load_materials" -> <<"--type", "table", "--name", "materials">>
      [] OTHER -> <<"--format", "json">>

handleInventoryDataLoad(a, e) ==
    Spawn(a, Proc("handleInventoryDataLoad", InventoryScript(a.cmd), InventoryArgs(a.cmd),
                  e, "spawn", FALSE))

handleInventoryDataLoadOnError(a) ==
    Post(a, Msg(Absent, "false", "string", Absent, Absent, a.inp.rid))

handleInventoryDataLoadOnClose(a, out) ==
    IF out # "nonzero" /\ Parses(out)
    THEN IF ResultSuccess(out) = "true"
         THEN Post(a, Msg(Absent, "true", Absent, "array", Absent, a.inp.rid))
         ELSE Post(a, Msg(Absent, "false", ResultError(out), Absent, Absent, a.inp.rid))
    ELSE Post(a, Msg(Absent, "false", "string", Absent, Absent, a.inp.rid))

runPython(a, e) ==
    Spawn(a, Proc("runPython", "inventory_management_handler.py", <<"action">>, e, "spawn", FALSE))

runPythonOnError(a) ==
    Post(Note(a, "error"), Msg("actionResult", "false", "string", Absent, Absent, 0))

runPythonOnClose(a, out) ==
    IF out # "nonzero"
    THEN Post(a, Msg("actionResult", "true", Absent, "string", Absent, 0))
    ELSE Post(Note(a, "error"), Msg("actionResult", "false", "string", Absent, Absent, 0))

handleInventoryAction(a) == Note(a, "info")

----------------------------------------------------------------------------
\* Commands: Excel to JSON, migration, database test, add material, reconnect

FlowScripts(cmd) ==
    IF cmd = "ims.convertToJson"
    THEN <<"parse_manager.py", "generate_standard_material_table.py">>
    ELSE <<"import_to_mongodb_with_standard_codes.py", "verify_import.py">>

FlowArgs(cmd, step) ==
    CASE cmd = "ims.convertToJson" /\ step = 1 -> <<"excelPath", "outputPath">>
      [] cmd = "ims.convertToJson" /\ step = 2 -> <<"--docs-dir", "docsDir">>
      [] OTHER -> <<>>

runScript(a, e) ==
    LET step == Len(a.procs) + 1
    IN  Spawn(a, Proc("runScript", FlowScripts(a.cmd)[step], FlowArgs(a.cmd, step), e, "spawn", FALSE))

\* runExcelToJsonProcess and runMigrationProcess; without a uri the command
\* shows an error and runs nothing.
runFlow(a, e) == IF a.inp.uri THEN runScript(a, e) ELSE Note(a, "error")

\* 'error' rejects runScript's promise; the flow's catch shows the error.
runScriptOnError(a) == Note(a, "error")

\* A flow that goes on with its next step whatever the exit code was.
runScriptOnCloseAnyCode(a, out, e, errored) ==
    IF Len(a.procs) < Len(FlowScripts(a.cmd)) THEN runScript(a, e)
    ELSE Note(a, "info")

\* A flow whose 'close' listener shows the error although 'error' has
\* rejected the promise before.
runScriptOnCloseRejectingTwice(a, out, e, errored) ==
    IF out = "nonzero" THEN Note(a, "error")
    ELSE IF Len(a.procs) < Len(FlowScripts(a.cmd)) THEN runScript(a, e)
    ELSE Note(a, "info")

\* 'close' with code 0 resolves the promise and the flow goes on with its
\* next step, or shows its success; another code rejects it.
runScriptOnClose(a, out, e, errored) ==
    IF errored THEN a
    ELSE IF out = "nonzero" THEN Note(a, "error")
    ELSE IF Len(a.procs) < Len(FlowScripts(a.cmd)) THEN runScript(a, e)
    ELSE Note(a, "info")

runDatabaseTest(a, e) ==
    Spawn(a, Proc("runDatabaseTest", "test_db_connection.py", <<>>, e, "spawn", FALSE))

runDatabaseTestOnError(a) == Note(a, "error")

runDatabaseTestOnClose(a, out) == IF out # "nonzero" THEN Note(a, "info") ELSE Note(a, "warning")

\* showAddMaterialDialog: nothing runs when the user leaves an input box empty.
runAddMaterialScript(a, e) ==
    IF a.inp.confirm
    THEN Spawn(a, Proc("runAddMaterialScript", "add_material.py", <<"json">>, e, "spawn", FALSE))
    ELSE a

runAddMaterialScriptOnError(a) == Note(a, "error")

runAddMaterialScriptOnClose(a, out, errored) ==
    IF errored THEN a
    ELSE IF out # "nonzero" THEN Note(a, "info") ELSE Note(a, "error")

\* ims.reconnectDb: ImsTreeDataProvider.checkConnection
checkConnection(a, e) ==
    Spawn(a, Proc("checkConnection", "get_collection_names.py", <<>>, e, "exec", FALSE))

checkConnectionOnExec(a, out) ==
    IF Parses(out) /\ ResultError(out) = Absent THEN a ELSE Note(a, "warning")

----------------------------------------------------------------------------
\* SupplierManagementWebviewProvider

SupplierModifications == {"add", "update", "delete", "batch_delete"}

supplierExecutePythonScript(a, command, e) ==
    Spawn(a, Proc("supplierExecutePythonScript", "supplier_management.py", <<command>>,
                  e, "exec", FALSE))

supplierHandleMessage(a, e) ==
    IF a.cmd \in SupplierModifications \cup {"list"}
    THEN supplierExecutePythonScript(a, a.cmd, e)
    ELSE Post(a, Msg("error", Absent, Absent, Absent, "string", 0))

\* execAsync settles: a failure is caught, shown, and turned into a result;
\* after a modification the list is fetched, and the list is posted.
supplierOnExec(a, out, e) ==
    LET b == IF Parses(out) THEN a ELSE Note(a, "error")
    IN  IF a.cmd \in SupplierModifications /\ Len(a.procs) = 1
        THEN supplierExecutePythonScript(b, "list", e)
        ELSE Post(b, Msg("updateList", Absent, Absent, "json", Absent, 0))

----------------------------------------------------------------------------
\* CustomerManagementWebviewProvider

CustomerOperation(cmd) ==
    CASE cmd = "loadCustomers" -> "list"
      [] cmd = "addCustomer" -> "add"
      [] cmd = "updateCustomer" -> "update"
      [] cmd = "deleteCustomer" -> "delete"
      [] cmd = "batchDeleteCustomers" -> "batch_delete"
      [] OTHER -> Absent

CustomerResponse(operation) ==
    CASE operation = "list" -> "customersLoaded"
      [] operation = "add" -> "customerAdded"
      [] operation = "update" -> "customerUpdated"
      [] operation = "delete" -> "customerDeleted"
      [] operation = "batch_delete" -> "customersBatchDeleted"

\* Without a workspace folder executePythonScript throws and nobody catches.
customerExecutePythonScript(a, operation, e) ==
    IF a.inp.ws
    THEN Spawn(a, Proc("customerExecutePythonScript", "customer_management.py",
                       <<"--operation", operation>>, e, "exec", FALSE))
    ELSE a

customerHandleMessage(a, e) ==
    IF CustomerOperation(a.cmd) # Absent
    THEN customerExecutePythonScript(a, CustomerOperation(a.cmd), e)
    ELSE Post(a, Msg("error", Absent, Absent, Absent, "string", 0))

\* The result is spread into the message; a failure of the script run is
\* the result {success: false, message}.
customerOnExec(a, out, e) ==
    LET operation == Last(a.procs).args[2]
        b == IF Parses(out)
             THEN Post(a, Msg(CustomerResponse(operation), ResultSuccess(out), ResultError(out),
                              ResultData(out), Absent, 0))
             ELSE Post(a, Msg(CustomerResponse(operation), "false", Absent, Absent, "string", 0))
    IN  IF operation # "list" /\ Parses(out) /\ ResultSuccess(out) = "true"
        THEN customerExecutePythonScript(b, "list", e)
        ELSE b

----------------------------------------------------------------------------
\* MaterialWebviewProvider

MaterialCommands ==
    {"loadSuppliers", "addMaterial", "loadMaterials", "loadSupplierCodes",
     "assignSupplierCodes", "exportMaterials"}

MaterialLoads == {"loadSuppliers", "loadMaterials", "loadSupplierCodes"}

\* What the method does when executePythonScript throws.
materialCatch(a, command) ==
    CASE command \in MaterialLoads -> Post(a, Msg("error", Absent, Absent, Absent, "string", 0))
      [] command = "addMaterial" -> Post(a, Msg("materialAdded", "false", "string", Absent, Absent, 0))
      [] OTHER -> Note(a, "error")

\* exec with a timeout of 30 s; without a workspace folder it throws at once.
materialExecutePythonScript(a, command, e) ==
    IF a.inp.ws
    THEN Spawn(a, Proc("materialExecutePythonScript", "material_web_handler.py", <<command>>,
                       e, "exec", TRUE))
    ELSE materialCatch(a, command)

materialHandleMessage(a, e) ==
    IF a.cmd \in MaterialCommands
    THEN materialExecutePythonScript(a, a.cmd, e)
    ELSE Post(a, Msg("error", Absent, Absent, Absent, "string", 0))

\* The script's own JSON, posted as it is.
ScriptResult(out) == Msg("<result>", ResultSuccess(out), ResultError(out), ResultData(out), Absent, 0)

materialOnExec(a, out, e) ==
    LET command == Last(a.procs).args[1] IN
    IF ~Parses(out) THEN materialCatch(a, command)
    ELSE CASE command \in MaterialLoads ->
                IF ResultSuccess(out) = "true" THEN Post(a, ScriptResult(out))
                ELSE Post(a, Msg("error", Absent, Absent, Absent, ResultError(out), 0))
           [] command = "addMaterial" -> Post(a, ScriptResult(out))
           [] command = "assignSupplierCodes" ->
                IF ResultSuccess(out) = "true"
                THEN materialExecutePythonScript(Note(a, "info"), "loadSupplierCodes", e)
                ELSE Note(a, "error")
           [] command = "exportMaterials" ->
                IF ResultSuccess(out) = "true" THEN Note(a, "info") ELSE Note(a, "error")

----------------------------------------------------------------------------
\* DataEntryWebviewProvider

runPythonScript(a, e) ==
    Spawn(a, Proc("runPythonScript", "data_entry_handler.py", <<a.cmd>>, e, "spawn", FALSE))

DataEntryFailure(a) == Post(a, Msg(Absent, "false", "string", Absent, Absent, 0))

runPythonScriptOnError(a) == DataEntryFailure(a)

runPythonScriptOnClose(a, out, errored) ==
    IF errored THEN a
    ELSE IF out # "nonzero" /\ Parses(out) THEN Post(a, ScriptResult(out))
    ELSE DataEntryFailure(a)

----------------------------------------------------------------------------
\* Dispatch

\* The messages each kind of panel handles, and the commands that run scripts.
TableLoadMessages == {"loadData", "refresh"}
TableCrudMessages == {"addRecord", "updateRecord", "deleteRecord"}
ViewMessages == {"loadData", "refresh", "filter"}
DashboardRequests ==
    {"getDashboardData", "getSalesTrend", "getInventoryAnalysis", "getCustomerAnalysis",
     "getPurchaseTrend", "getComparisonAnalysis"}
FlowCommands == {"ims.convertToJson", "ims.migrateToNewFormat"}

\* Handlers that call setDatabaseConfigEnv before spawning.
SetsEnv(a) ==
    \/ a.src = "table" /\ a.cmd \in TableCrudMessages
    \/ a.src = "dashboard" /\ a.cmd \in DashboardRequests
    \/ a.src = "inventory" /\ a.cmd \in InventoryLoads
    \/ a.src = "command" /\ a.cmd = "ims.migrateToNewFormat" /\ a.inp.uri
    \/ a.src = "command" /\ a.cmd \in {"ims.testDbConnection", "ims.reconnectDb"}

\* The synchronous part of the handler of a user action, run with process.env e.
Handle(a, e) ==
    CASE a.src = "table" /\ a.cmd \in TableLoadMessages -> loadTableData(a, e)
      [] a.src = "table" /\ a.cmd \in TableCrudMessages -> handleCrudOperation(a, e)
      [] a.src = "view" -> loadBusinessViewData(a, e)
      [] a.src = "dashboard" /\ a.cmd \in DashboardRequests -> runDataAnalysisScript(a, e)
      [] a.src = "dashboard" /\ a.cmd = "exportDashboard" -> handleDashboardExportRequest(a)
      [] a.src = "inventory" /\ a.cmd \in InventoryLoads -> handleInventoryDataLoad(a, e)
      [] a.src = "inventory" /\ a.cmd = "runPython" -> runPython(a, e)
      [] a.src = "inventory" /\ a.cmd = "inventoryAction" -> handleInventoryAction(a)
      [] a.src = "supplier" -> supplierHandleMessage(a, e)
      [] a.src = "customer" -> customerHandleMessage(a, e)
      [] a.src = "material" -> materialHandleMessage(a, e)
      [] a.src = "dataEntry" -> runPythonScript(a, e)
      [] a.src = "command" /\ a.cmd \in FlowCommands -> runFlow(a, e)
      [] a.src = "command" /\ a.cmd = "ims.testDbConnection" -> runDatabaseTest(a, e)
      [] a.src = "command" /\ a.cmd = "ims.addMaterial" -> runAddMaterialScript(a, e)
      [] a.src = "command" /\ a.cmd = "ims.reconnectDb" -> checkConnection(a, e)

\* The 'error' listener of the process spawned last for a.
OnError(a) ==
    LET h == Last(a.procs).h IN
    CASE h = "loadTableData" -> loadTableDataOnError(a)
      [] h = "handleCrudOperation" -> handleCrudOperationOnError(a)
      [] h = "loadBusinessViewData" -> loadBusinessViewDataOnError(a)
      [] h = "runDataAnalysisScript" -> runDataAnalysisScriptOnError(a)
      [] h = "handleInventoryDataLoad" -> handleInventoryDataLoadOnError(a)
      [] h = "runPython" -> runPythonOnError(a)
      [] h = "runScript" -> runScriptOnError(a)
      [] h = "runDatabaseTest" -> runDatabaseTestOnError(a)
      [] h = "runAddMaterialScript" -> runAddMaterialScriptOnError(a)
      [] h = "runPythonScript" -> runPythonScriptOnError(a)

\* The 'close' listener of the process spawned last for a; errored tells
\* that 'error' was emitted for the process before.
OnClose(a, out, e, errored) ==
    LET h == Last(a.procs).h IN
    CASE h = "loadTableData" -> loadTableDataOnClose(a, out)
      [] h = "handleCrudOperation" -> handleCrudOperationOnClose(a, out, e)
      [] h = "loadBusinessViewData" -> loadBusinessViewDataOnClose(a, out)
      [] h = "runDataAnalysisScript" -> runDataAnalysisScriptOnClose(a, out, errored)
      [] h = "handleInventoryDataLoad" -> handleInventoryDataLoadOnClose(a, out)
      [] h = "runPython" -> runPythonOnClose(a, out)
      [] h = "runScript" -> runScriptOnClose(a, out, e, errored)
      [] h = "runDatabaseTest" -> runDatabaseTestOnClose(a, out)
      [] h = "runAddMaterialScript" -> runAddMaterialScriptOnClose(a, out, errored)
      [] h = "runPythonScript" -> runPythonScriptOnClose(a, out, errored)

\* The callback of exec for the process started last for a.
OnExec(a, out, e) ==
    LET h == Last(a.procs).h IN
    CASE h = "checkConnection" -> checkConnectionOnExec(a, out)
      [] h = "supplierExecutePythonScript" -> supplierOnExec(a, out, e)
      [] h = "customerExecutePythonScript" -> customerOnExec(a, out, e)
      [] h = "materialExecutePythonScript" -> materialOnExec(a, out, e)

\* The outcomes of a script that its handler tells apart.
HandlerOuts(h) ==
    CASE h = "loadTableData" -> {"okTrue", "noisy", "garbage", "nonzero"}
      [] h = "handleCrudOperation" -> {"okTrue", "okFalseStr", "garbage", "nonzero"}
      [] h = "loadBusinessViewData" -> {"okTrue", "noisy", "garbage", "nonzero"}
      [] h = "runDataAnalysisScript" ->
            {"okTrue", "okFalseStr", "okFalseObj", "garbage", "empty", "nonzero"}
      [] h \in {"customerExecutePythonScript", "materialExecutePythonScript"} ->
            {"okTrue", "okFalseStr", "okFalseObj", "garbage", "nonzero"}
      [] h \in {"handleInventoryDataLoad", "runPythonScript", "checkConnection"} ->
            {"okTrue", "okFalseStr", "garbage", "nonzero"}
      [] h = "supplierExecutePythonScript" -> {"okTrue", "garbage", "nonzero"}
      [] OTHER -> {"any", "nonzero"}

\* The user actions: source, command, inputs.
NoInput ==
    [name |-> Absent, params |-> FALSE, ws |-> TRUE, uri |-> TRUE, confirm |-> TRUE, rid |-> 0,
     panel |-> 0]

ViewNames == {"supplier_reconciliation", "payables_report", "unknown_view"}

UserActions ==
    {Action("table", c, [NoInput EXCEPT !.name = "customers"]) :
        c \in TableLoadMessages \cup TableCrudMessages}
    \cup {Action("view", c, [NoInput EXCEPT !.name = v]) :
            c \in ViewMessages, v \in ViewNames}
    \cup {Action("view", "filter", [NoInput EXCEPT !.name = v, !.params = TRUE]) : v \in ViewNames}
    \cup {Action("dashboard", c, [NoInput EXCEPT !.params = p]) :
            c \in DashboardRequests \cup {"exportDashboard"}, p \in BOOLEAN}
    \cup {Action("inventory", c, NoInput) :
            c \in InventoryLoads \cup {"runPython", "inventoryAction"}}
    \cup {Action("supplier", c, NoInput) : c \in SupplierModifications \cup {"list", "unknown"}}
    \cup {Action("customer", c, [NoInput EXCEPT !.ws = w]) :
            c \in {"loadCustomers", "addCustomer", "updateCustomer", "deleteCustomer",
                   "batchDeleteCustomers", "unknown"}, w \in BOOLEAN}
    \cup {Action("material", c, [NoInput EXCEPT !.ws = w]) :
            c \in MaterialCommands \cup {"unknown"}, w \in BOOLEAN}
    \cup {Action("dataEntry", "submit", NoInput)}
    \cup {Action("command", c, [NoInput EXCEPT !.uri = u]) : c \in FlowCommands, u \in BOOLEAN}
    \cup {Action("command", "ims.addMaterial", [NoInput EXCEPT !.confirm = c]) : c \in BOOLEAN}
    \cup {Action("command", c, NoInput) : c \in {"ims.testDbConnection", "ims.reconnectDb"}}

PanelKinds == {"table", "view", "dashboard", "inventory", "supplier", "customer", "material", "dataEntry"}

\* The kinds whose panel is held in the _panel field of a provider object;
\* the panels of the other kinds are local to the function that creates them.
Providers == {"supplier", "customer", "material", "dataEntry"}

\* A webview panel as createWebviewPanel returns it.
Panel(kind) == [kind |-> kind, disposed |-> FALSE]

NoProviderPanel == [p \in Providers |-> 0]

\* The panels of a kind that are not disposed.
OpenPanels(kind) == {id \in 1..Len(panels) : panels[id].kind = kind /\ ~panels[id].disposed}

\* _sendMessage of a provider (and handleMessage of DataEntryWebviewProvider)
\* posts only while the _panel field is set: without it the messages a
\* callback would post for action a are dropped.  The listeners of the other
\* panels post to the panel of their closure without a check.
Deliver(a, b) ==
    IF a.src \in Providers /\ providerPanel[a.src] = 0 THEN [b EXCEPT !.posts = a.posts] ELSE b

----------------------------------------------------------------------------
\* Actions

\* A command is invoked, or a message of an open panel's webview arrives: the
\* handler runs up to the point where it waits for the process it started.
\* The inventory webview numbers its requests.
ReceiveUpTo(n) ==
    /\ Len(acts) < n
    /\ \E u \in UserActions :
       \E id \in IF u.src \in PanelKinds THEN OpenPanels(u.src) ELSE {0} :
         LET r == IF u.src = "inventory" THEN [u EXCEPT !.inp.rid = Len(acts) + 1] ELSE u
             a == [r EXCEPT !.inp.panel = id]
             e == IF SetsEnv(a) THEN setDatabaseConfigEnv(env, settings) ELSE env
         IN  /\ a.src \in PanelKinds \cup {"command"}
             /\ env' = e
             /\ acts' = Append(acts, Handle(a, e))
    /\ UNCHANGED <<settings, panels, providerPanel, call>>

Receive == ReceiveUpTo(MaxActions)

\* The process spawned last for action i could not be started: 'error' is emitted.
ProcError ==
    \E i \in 1..Len(acts) :
        /\ acts[i].procs # <<>>
        /\ Last(acts[i].procs).via = "spawn"
        /\ Last(acts[i].procs).st = "running"
        /\ acts' = [acts EXCEPT ![i] = Deliver(acts[i], OnError(SetLast(acts[i], "errored", Absent)))]
        /\ UNCHANGED <<env, settings, panels, providerPanel, call>>

\* The process spawned last for action i ends and its streams close: 'close'
\* is emitted with the exit code. After a failed start Node may emit 'close'
\* too, with a negative code.
ProcClose ==
    \E i \in 1..Len(acts) :
        /\ acts[i].procs # <<>>
        /\ Last(acts[i].procs).via = "spawn"
        /\ \E out \in HandlerOuts(Last(acts[i].procs).h) :
            /\ \/ Last(acts[i].procs).st = "running"
               \/ Last(acts[i].procs).st = "errored" /\ out = "nonzero"
            /\ acts' = [acts EXCEPT ![i] =
                            Deliver(acts[i], OnClose(SetLast(acts[i], "closed", out), out, env,
                                                     Last(acts[i].procs).st = "errored"))]
        /\ UNCHANGED <<env, settings, panels, providerPanel, call>>

\* The command started last with exec for action i ends (or fails to start):
\* the callback of exec runs.
ExecDone ==
    \E i \in 1..Len(acts) :
        /\ acts[i].procs # <<>>
        /\ Last(acts[i].procs).via = "exec"
        /\ Last(acts[i].procs).st = "running"
        /\ \E out \in HandlerOuts(Last(acts[i].procs).h) :
            acts' = [acts EXCEPT ![i] = Deliver(acts[i], OnExec(SetLast(acts[i], "closed", out), out, env))]
        /\ UNCHANGED <<env, settings, panels, providerPanel, call>>

\* The timeout given to exec expires while the command still runs: exec
\* kills it and calls back with an error.
ExecTimeout ==
    \E i \in 1..Len(acts) :
        /\ acts[i].procs # <<>>
        /\ Last(acts[i].procs).via = "exec"
        /\ Last(acts[i].procs).timeout
        /\ Last(acts[i].procs).st = "running"
        /\ acts' = [acts EXCEPT ![i] =
                            Deliver(acts[i], OnExec(SetLast(acts[i], "closed", "timeout"), "nonzero", env))]
        /\ UNCHANGED <<env, settings, panels, providerPanel, call>>

\* The kinds of the panels that are open at the start, in order of creation.
InitialPanels ==
    <<"table", "view", "dashboard", "inventory", "supplier", "customer", "material", "dataEntry">>

\* The extension is activated, one panel of each kind is open, and
\* showTableDataPanel has set the database environment.
Init ==
    /\ acts = <<>>
    /\ settings \in SettingsProfiles
    /\ env = setDatabaseConfigEnv(InitialEnv, settings)
    /\ panels = [id \in 1..Len(InitialPanels) |-> Panel(InitialPanels[id])]
    /\ providerPanel = [p \in Providers |-> CHOOSE id \in 1..Len(InitialPanels) : InitialPanels[id] = p]
    /\ call = NoCall

Next == Receive \/ ProcError \/ ProcClose \/ ExecDone \/ ExecTimeout

Spec == Init /\ [][Next]_vars

\* A script may run forever, so no process event is fair; the timer that
\* exec arms for its timeout option does fire.
FairSpec == Spec /\ WF_vars(ExecTimeout)

----------------------------------------------------------------------------
\* The user opens panels and changes settings between the actions

\* The panels and commands of extension.ts that are looked at here.
EnvPanels == {"table", "view"}

\* ims.showTableData, ims.showBusinessView: showTableDataPanel sets the
\* database environment before it creates its panel, showBusinessViewPanel
\* does not.
ShowPanel ==
    \E k \in EnvPanels :
        /\ OpenPanels(k) = {}
        /\ panels' = Append(panels, Panel(k))
        /\ env' = IF k = "table" THEN setDatabaseConfigEnv(env, settings) ELSE env
        /\ UNCHANGED <<acts, settings, providerPanel, call>>

\* The user edits the imsViewer.* settings.
ChangeSettings ==
    \E s \in SettingsProfiles :
        /\ s # settings
        /\ settings' = s
        /\ UNCHANGED <<acts, env, panels, providerPanel, call>>

ReceiveEnv == ReceiveUpTo(MaxEnvActions)

\* The extension has just been activated: no panel, no IMS_* variable.
InitEnv ==
    /\ acts = <<>>
    /\ settings \in SettingsProfiles
    /\ env = InitialEnv
    /\ panels = <<>>
    /\ providerPanel = NoProviderPanel
    /\ call = NoCall

NextEnv == ShowPanel \/ ChangeSettings \/ ReceiveEnv \/ ProcError \/ ProcClose \/ ExecDone

SpecEnv == InitEnv /\ [][NextEnv]_vars

----------------------------------------------------------------------------
\* Properties of the processes spawned and the messages posted

ActionIndex == 1..Len(acts)
Commands(msgs) == {msgs[k].cmd : k \in 1..Len(msgs)}

\* The user actions with a second step: the two-script flows, the table
\* operations and customer modifications that reload after a success, the
\* supplier modifications, and assignSupplierCodes.
TwoStep(a) ==
    \/ a.src = "command" /\ a.cmd \in FlowCommands
    \/ a.src = "table" /\ a.cmd \in TableCrudMessages
    \/ a.src = "supplier" /\ a.cmd \in SupplierModifications
    \/ a.src = "customer" /\ a.cmd \in {"addCustomer", "updateCustomer", "deleteCustomer",
                                         "batchDeleteCustomers"}
    \/ a.src = "material" /\ a.cmd = "assignSupplierCodes"

\* C1 as stated: no user action has more than one child process spawned for
\* it.
C1_AtMostOneProcess == \A i \in ActionIndex : Len(acts[i].procs) <= 1

\* C1 amended: a user action has at most two child processes spawned for
\* it, the second only after the first has ended (never two at a time), and
\* only the two-step actions have a second one.
C1_AtMostTwoInTurn ==
    \A i \in ActionIndex :
        /\ Len(acts[i].procs) <= 2
        /\ Len(acts[i].procs) = 2 => acts[i].procs[1].st = "closed" /\ TwoStep(acts[i])

\* A table operation succeeded and the reload it asked for is running.
C1_SecondProcessSpawned ==
    \E i \in ActionIndex :
        /\ acts[i].src = "table"
        /\ Len(acts[i].procs) = 2
        /\ acts[i].procs[2].h = "loadTableData"

\* The processes that load the data of a table or business view panel.
LoadProcs(a) ==
    {a.procs[k] : k \in {j \in 1..Len(a.procs) :
                            a.procs[j].h \in {"loadTableData", "loadBusinessViewData"}}}

\* The script exited with code 0 and the JSON of its stdout was parsed
\* (loadTableData parses the first {...} of it).
C2_ParsedOutput(p) ==
    /\ p.st = "closed"
    /\ \/ p.out \in {"okTrue", "okFalseStr", "okFalseObj"}
       \/ p.h = "loadTableData" /\ p.out = "noisy"

C2_Failed(p) == p.st = "errored" \/ (p.st = "closed" /\ ~C2_ParsedOutput(p))

\* C2: a table or business view panel is posted 'data' only after the
\* script spawned for the request closed with code 0 and its stdout was
\* parsed as JSON; when the script fails to start, exits with another code or
\* prints something that does not parse, 'error' is posted and 'data' is not.
C2_DataOnlyAfterParsedOutput ==
    \A i \in ActionIndex :
        acts[i].src \in {"table", "view"} =>
            /\ "data" \in Commands(acts[i].posts) =>
                    \E p \in LoadProcs(acts[i]) : C2_ParsedOutput(p)
            /\ \A p \in LoadProcs(acts[i]) :
                    C2_Failed(p) => /\ "error" \in Commands(acts[i].posts)
                                    /\ "data" \notin Commands(acts[i].posts)

\* A business view panel was posted the data its script printed.
C2_DataPosted ==
    \E i \in ActionIndex :
        /\ acts[i].src = "view"
        /\ "data" \in Commands(acts[i].posts)

\* A message that reports a failure to a webview.
ReportsFailure(m) == m.cmd = "error" \/ m.success = "false"

\* C3: every failure reported to a webview carries an error object with code,
\* message and details.
C3_FailuresAreEnvelopes ==
    \A i \in ActionIndex :
        \A k \in 1..Len(acts[i].posts) :
            ReportsFailure(acts[i].posts[k]) => acts[i].posts[k].error = "object"

\* The process could not be started, exited with a code other than 0, or was
\* killed when its timeout expired.
ProcFailed(p) == p.st = "errored" \/ (p.st = "closed" /\ p.out \in {"nonzero", "timeout"})

\* A failure was posted to the webview or shown in a notification.
FailureShown(a) ==
    \/ \E k \in 1..Len(a.posts) : ReportsFailure(a.posts[k])
    \/ \E k \in 1..Len(a.notes) : a.notes[k] \in {"error", "warning"}

C6_EveryProcessIsCutOff ==
    \A i \in 1..MaxActions :
        (/\ i <= Len(acts)
         /\ acts[i].procs # <<>>
         /\ Last(acts[i].procs).st = "running")
        ~> (/\ i <= Len(acts)
            /\ acts[i].procs # <<>>
            /\ Last(acts[i].procs).st # "running")

\* The environment a process spawned for action a is given when nothing was
\* done before a: what setDatabaseConfigEnv makes of the settings when the
\* handler (or, for the table panel, the command that opened it) calls it,
\* and no IMS_* variable otherwise.
HistoryFreeEnv(a, s) ==
    IF SetsEnv(a) \/ a.src = "table"
    THEN setDatabaseConfigEnv(InitialEnv, s)
    ELSE InitialEnv

C8_ExactlyOneResponse ==
    \A i \in ActionIndex :
        (acts[i].src = "inventory" /\ acts[i].cmd \in InventoryLoads) =>
            /\ Len(acts[i].posts) <= 1
            /\ \A k \in 1..Len(acts[i].posts) :
                    /\ acts[i].posts[k].rid = acts[i].inp.rid
                    /\ \/ acts[i].posts[k].success = "true" /\ acts[i].posts[k].data = "array"
                       \/ acts[i].posts[k].success = "false" /\ acts[i].posts[k].error = "string"
            /\ (acts[i].procs # <<>> /\ Last(acts[i].procs).st = "closed") =>
                    Len(acts[i].posts) = 1

----------------------------------------------------------------------------
\* data_analysis_service.py: get_dashboard_data

\* The clock readings and day numbers of a run.
MaxDay == 2
Days == 0..MaxDay

\* The amounts a summary holds.
MaxAmount == 1

\* Python values.
PyNone == [t |-> "NoneType"]
PyBool(b) == [t |-> "bool", b |-> b]
PyInt(n) == [t |-> "int", n |-> n]
PyStr(s) == [t |-> "str", s |-> s]
PyList(l) == [t |-> "list", l |-> l]
PyDict(d) == [t |-> "dict", d |-> d]
EmptyDict == PyDict([k \in {} |-> PyNone])

\* The call has not returned yet.
Pending == [t |-> "<pending>"]

\* bool(x), as 'or' evaluates it
Truthy(x) ==
    CASE x.t = "NoneType" -> FALSE
      [] x.t = "bool" -> x.b
      [] x.t = "int" -> x.n # 0
      [] x.t = "str" -> x.s # ""
      [] x.t = "list" -> x.l # <<>>
      [] x.t = "dict" -> DOMAIN x.d # {}

\* The values an 'error' key may hold.
ErrorValues ==
    { PyNone, PyStr(""), PyStr("database unavailable"), PyInt(0), PyBool(FALSE),
      PyDict([code |-> PyStr("DB_ERROR"), message |-> PyStr("database unavailable"),
              details |-> PyStr("")]) }

\* What get_dashboard_summary ends with: it returns a value or raises.
SummaryOutcomes ==
    {[kind |-> "return", value |-> v] :
        v \in {EmptyDict} \cup {PyDict([total_sales |-> PyInt(n)]) : n \in 0..MaxAmount}
              \cup {PyDict([error |-> e]) : e \in ErrorValues}
              \cup {PyDict([error |-> e, total_sales |-> PyInt(0)]) : e \in ErrorValues}
              \cup {PyNone, PyInt(0), PyInt(1), PyStr(""), PyStr("text"), PyBool(TRUE),
                    PyList(<<>>), PyList(<<PyInt(1)>>)}}
    \cup {[kind |-> "raise", message |-> m] : m \in {"", "connection refused"}}

Envelope(success, data, error, now) ==
    [success |-> success, data |-> data, error |-> error, generated_at |-> now]

\* dict.get returns the default only when the key is missing.
get_dashboard_data(summary, now) ==
    IF summary.kind = "raise"
    THEN Envelope(FALSE, PyNone,
                  PyDict([code |-> PyStr("DASHBOARD_DATA_FAILED"),
                          message |-> PyStr(summary.message),
                          details |-> PyStr("dashboard data failed")]), now)
    ELSE IF summary.value.t = "dict"
    THEN IF "error" \in DOMAIN summary.value.d
         THEN Envelope(FALSE, PyNone, summary.value.d.error, now)
         ELSE Envelope(TRUE, summary.value, PyNone, now)
    ELSE Envelope(TRUE, IF Truthy(summary.value) THEN summary.value ELSE EmptyDict, PyNone, now)

\* get_dashboard_data is called; get_dashboard_summary ends as call.summary
\* says and the clock reads call.now.
GetDashboardData ==
    /\ call.fn = "get_dashboard_data"
    /\ call.ret = Pending
    /\ call' = [call EXCEPT !.ret = get_dashboard_data(call.summary, call.now)]
    /\ UNCHANGED <<acts, env, settings, panels, providerPanel>>

InitDash ==
    /\ acts = <<>>
    /\ settings = DefaultSettings
    /\ env = InitialEnv
    /\ panels = <<>>
    /\ providerPanel = NoProviderPanel
    /\ call \in {[fn |-> "get_dashboard_data", summary |-> o, now |-> n, ret |-> Pending] :
                    o \in SummaryOutcomes, n \in Days}

SpecDash == InitDash /\ [][GetDashboardData]_vars

\* C4: whatever get_dashboard_summary ends with, get_dashboard_data returns
\* one of two envelopes with the keys success, data, error, generated_at:
\* success with no error and a data that is not None, or failure with no data
\* and an error that is not None.
C4_OneOfTwoEnvelopes ==
    (call.fn = "get_dashboard_data" /\ call.ret # Pending) =>
        /\ DOMAIN call.ret = {"success", "data", "error", "generated_at"}
        /\ \/ (call.ret.success /\ call.ret.error = PyNone /\ call.ret.data # PyNone)
           \/ (~call.ret.success /\ call.ret.data = PyNone /\ call.ret.error # PyNone)

----------------------------------------------------------------------------
\* data_analysis_service.py: validate_and_clean_params, handle_method_call

\* The ranges and defaults of the numeric parameters, and the default range
\* of dates in days.
NumericMin == 1
PageMax == 10000
PageSizeMax == 1000
LimitMax == 10000
DefaultPage == 1
DefaultPageSize == 50
DefaultRangeDays == 30

\* The longest string given for a numeric parameter.
MaxDigits == 5

\* A parameter that is not given.
Missing == [t |-> "<missing>"]

\* A string, character by character.
PyChars(c) == [t |-> "str", c |-> c]

\* A string that holds the date of day number day in the given form, or
\* that holds no date.
DateStr(form, day) == [t |-> "str", form |-> form, day |-> day]

NumericParams == {"page", "page_size", "limit"}

Digits == {"0", "1", "2", "3", "4", "5", "6", "7", "8", "9"}

Digit(ch) ==
    CASE ch = "0" -> 0 [] ch = "1" -> 1 [] ch = "2" -> 2 [] ch = "3" -> 3 [] ch = "4" -> 4
      [] ch = "5" -> 5 [] ch = "6" -> 6 [] ch = "7" -> 7 [] ch = "8" -> 8 [] ch = "9" -> 9

\* The string is a decimal number: an optional sign and at least one digit.
IsNumericString(c) ==
    LET body == IF c # <<>> /\ c[1] = "-" THEN Tail(c) ELSE c
    IN  body # <<>> /\ \A i \in 1..Len(body) : body[i] \in Digits

RECURSIVE DigitsValue(_)
DigitsValue(c) ==
    IF c = <<>> THEN 0
    ELSE 10 * DigitsValue(SubSeq(c, 1, Len(c) - 1)) + Digit(c[Len(c)])

\* int(s) for a numeric string s
StrToInt(c) == IF c[1] = "-" THEN 0 - DigitsValue(Tail(c)) ELSE DigitsValue(c)

Clamp(n, lo, hi) == IF n < lo THEN lo ELSE IF n > hi THEN hi ELSE n

NumericMax(f) ==
    CASE f = "page" -> PageMax
      [] f = "page_size" -> PageSizeMax
      [] f = "limit" -> LimitMax

\* The value an invalid parameter is replaced by; limit has none and is
\* dropped.
NumericDefault(f) ==
    CASE f = "page" -> PyInt(DefaultPage)
      [] f = "page_size" -> PyInt(DefaultPageSize)
      [] f = "limit" -> Missing

\* A validation that converts but lets a value above the range through.
validate_numeric_param_unbounded(f, v) ==
    IF v = Missing THEN Missing
    ELSE IF v.t = "int" THEN PyInt(IF v.n < NumericMin THEN NumericMin ELSE v.n)
    ELSE IF v.t = "str" /\ IsNumericString(v.c)
    THEN PyInt(IF StrToInt(v.c) < NumericMin THEN NumericMin ELSE StrToInt(v.c))
    ELSE NumericDefault(f)

\* One numeric parameter: converted, brought into its range, or replaced.
validate_numeric_param(f, v) ==
    IF v = Missing THEN Missing
    ELSE IF v.t = "int" THEN PyInt(Clamp(v.n, NumericMin, NumericMax(f)))
    ELSE IF v.t = "str" /\ IsNumericString(v.c)
    THEN PyInt(Clamp(StrToInt(v.c), NumericMin, NumericMax(f)))
    ELSE NumericDefault(f)

validate_numeric_params(params) ==
    [params EXCEPT !.page = validate_numeric_param("page", @),
                   !.page_size = validate_numeric_param("page_size", @),
                   !.limit = validate_numeric_param("limit", @)]

\* The defaults that hold for every method.
apply_default_values(params) ==
    [params EXCEPT !.page = IF @ = Missing THEN PyInt(DefaultPage) ELSE @,
                   !.page_size = IF @ = Missing THEN PyInt(DefaultPageSize) ELSE @]

\* The forms of date string: only YYYY-MM-DD, with or without blanks around
\* it, is a date.
DateForms == {"YYYY-MM-DD", " YYYY-MM-DD ", "YYYY/MM/DD", "text"}

ParseDate(v) ==
    IF v.t = "str" /\ v.form \in {"YYYY-MM-DD", " YYYY-MM-DD "}
    THEN [ok |-> TRUE, day |-> v.day]
    ELSE [ok |-> FALSE, day |-> 0]

FormatDate(day) == DateStr("YYYY-MM-DD", day)

\* A validation that lets a range through as it was given.
validate_and_format_date_range_unchecked(params, today) ==
    [ok |-> TRUE, params |-> params]

\* A validation that leaves an end date in the future as it is.
validate_and_format_date_range_unadjusted(params, today) ==
    IF params.start_date = Missing /\ params.end_date = Missing
    THEN [ok |-> TRUE,
          params |-> [params EXCEPT !.start_date = FormatDate(today - DefaultRangeDays),
                                    !.end_date = FormatDate(today)]]
    ELSE LET start == ParseDate(params.start_date)
             end == ParseDate(params.end_date)
         IN  IF ~start.ok \/ ~end.ok \/ start.day > today \/ ~(start.day < end.day)
             THEN [ok |-> FALSE, params |-> params]
             ELSE [ok |-> TRUE,
                   params |-> [params EXCEPT !.start_date = FormatDate(start.day),
                                             !.end_date = FormatDate(end.day)]]

\* A missing range becomes the last 30 days; an end date in the future
\* becomes today; a value that is no date, a start date in the future and a
\* start date that is not earlier than the end date fail.
validate_and_format_date_range(params, today) ==
    IF params.start_date = Missing /\ params.end_date = Missing
    THEN [ok |-> TRUE,
          params |-> [params EXCEPT !.start_date = FormatDate(today - DefaultRangeDays),
                                    !.end_date = FormatDate(today)]]
    ELSE LET start == ParseDate(params.start_date)
             end == ParseDate(params.end_date)
             endDay == IF end.day > today THEN today ELSE end.day
         IN  IF ~start.ok \/ ~end.ok \/ start.day > today \/ ~(start.day < endDay)
             THEN [ok |-> FALSE, params |-> params]
             ELSE [ok |-> TRUE,
                   params |-> [params EXCEPT !.start_date = FormatDate(start.day),
                                             !.end_date = FormatDate(endDay)]]

validate_and_clean_params(method, params, today) ==
    LET dated == validate_and_format_date_range(apply_default_values(params), today)
    IN  IF dated.ok
        THEN [ok |-> TRUE, params |-> validate_numeric_params(dated.params)]
        ELSE dated

ServiceMethods ==
    {"get_dashboard_summary", "analyze_sales_trend", "analyze_customer_value",
     "analyze_inventory_turnover", "generate_comparison_analysis"}

ErrorResponse(code, now) ==
    [success |-> FALSE,
     error |-> PyDict([code |-> PyStr(code), message |-> PyStr("message"),
                       details |-> PyStr("details")]),
     generated_at |-> now]

\* The call after handle_method_call: its response, the parameters the
\* method was given, and whether the method was executed.
handle_method_call(c) ==
    IF c.method \notin ServiceMethods
    THEN [c EXCEPT !.ret = ErrorResponse("INVALID_METHOD", c.now)]
    ELSE LET v == validate_and_clean_params(c.method, c.params, c.now)
         IN  IF v.ok
             THEN [c EXCEPT !.ret = [success |-> TRUE, data |-> PyDict([method |-> PyStr(c.method)]),
                                     generated_at |-> c.now],
                            !.cleaned = v.params, !.executed = TRUE]
             ELSE [c EXCEPT !.ret = ErrorResponse("INVALID_PARAMETERS", c.now)]

HandleMethodCall ==
    /\ call.fn = "handle_method_call"
    /\ call.ret = Pending
    /\ call' = handle_method_call(call)
    /\ UNCHANGED <<acts, env, settings, panels, providerPanel>>

\* The values given for a numeric parameter.
NumericValues ==
    {PyInt(n) : n \in {0 - 1, 0, 1, 2, 50, 999, 1000, 1001, 9999, 10000, 10001}}
    \cup {PyChars(c) : c \in UNION {[1..n -> {"0", "1", "-", "x"}] : n \in 0..MaxDigits}}
    \cup {PyNone, PyList(<<>>)}

\* The values given for a date.
DateValues == {DateStr(f, d) : f \in DateForms, d \in Days} \cup {PyInt(0)}

NoParams ==
    [page |-> Missing, page_size |-> Missing, limit |-> Missing,
     start_date |-> Missing, end_date |-> Missing]

\* The parameters of a call: one numeric parameter of any value, or a date
\* range of any two values with or without a page that is not a number.
ParamCases ==
    {[NoParams EXCEPT ![f] = v] : f \in NumericParams, v \in NumericValues}
    \cup {[NoParams EXCEPT !.start_date = s, !.end_date = e, !.page = p] :
            s \in DateValues, e \in DateValues, p \in {Missing, PyChars(<<"x">>)}}

InitValid ==
    /\ acts = <<>>
    /\ settings = DefaultSettings
    /\ env = InitialEnv
    /\ panels = <<>>
    /\ providerPanel = NoProviderPanel
    /\ call \in {[fn |-> "handle_method_call", method |-> m, params |-> p, now |-> n,
                   ret |-> Pending, cleaned |-> NoParams, executed |-> FALSE] :
                    m \in {"get_dashboard_summary", "analyze_sales_trend", "no_such_method"},
                    p \in ParamCases, n \in Days}

SpecValid == InitValid /\ [][HandleMethodCall]_vars

\* The call was answered.
Answered == call.fn = "handle_method_call" /\ call.ret # Pending

\* The value is a number: an integer or a numeric string.
IsNumber(v) == v.t = "int" \/ (v.t = "str" /\ IsNumericString(v.c))
NumberOf(v) == IF v.t = "int" THEN v.n ELSE StrToInt(v.c)

\* C9: after validation page, page_size and limit, when present, are
\* integers in 1..10000, 1..1000 and 1..10000: a number, also one given as a
\* numeric string, inside the range is kept as an integer, one below or above
\* it is set to the nearest bound, and a value that is not a number is
\* replaced by the default (page 1, page_size 50).
C9_NumericParamsInRange ==
    (Answered /\ call.executed) =>
        /\ \A f \in NumericParams :
              call.cleaned[f] # Missing =>
                  /\ call.cleaned[f].t = "int"
                  /\ call.cleaned[f].n \in 1..(IF f = "page_size" THEN 1000 ELSE 10000)
        /\ \A f \in NumericParams :
              (call.params[f] # Missing /\ IsNumber(call.params[f])) =>
                  LET n == NumberOf(call.params[f])
                      top == IF f = "page_size" THEN 1000 ELSE 10000
                  IN  /\ call.cleaned[f] # Missing
                      /\ n < 1 => call.cleaned[f].n = 1
                      /\ n > top => call.cleaned[f].n = top
                      /\ n \in 1..top => call.cleaned[f].n = n
        /\ (call.params.page # Missing /\ ~IsNumber(call.params.page)) =>
              call.cleaned.page = PyInt(1)
        /\ (call.params.page_size # Missing /\ ~IsNumber(call.params.page_size)) =>
              call.cleaned.page_size = PyInt(50)

\* A page size given as the string "11111" was set to 1000.
C9_StringAboveRangeClamped ==
    /\ Answered
    /\ call.executed
    /\ call.params.page_size = PyChars(<<"1", "1", "1", "1", "1">>)
    /\ call.cleaned.page_size = PyInt(1000)

\* A value that cannot be made a number was given for a numeric parameter.
NumericUncoercible(params) ==
    \E f \in NumericParams : params[f] # Missing /\ ~IsNumber(params[f])

\* A value that cannot be made a date was given for a date.
DateUncoercible(params) ==
    \E f \in {"start_date", "end_date"} : params[f] # Missing /\ ~ParseDate(params[f]).ok

\* The call was answered with the structured error INVALID_PARAMETERS and
\* the method was not executed.
Rejected ==
    /\ ~call.ret.success
    /\ call.ret.error.t = "dict"
    /\ DOMAIN call.ret.error.d = {"code", "message", "details"}
    /\ call.ret.error.d.code = PyStr("INVALID_PARAMETERS")
    /\ ~call.executed

\* C10 as stated: a call of a method of the service with a parameter value
\* that cannot be coerced to the type of its field is rejected with the
\* structured error INVALID_PARAMETERS and the method is not executed.
C10_UncoercibleRejected ==
    (/\ Answered
     /\ call.method \in ServiceMethods
     /\ NumericUncoercible(call.params) \/ DateUncoercible(call.params)) => Rejected

\* C10 amended: a call of a method of the service with a start or end date
\* that cannot be read as a date is rejected with the structured error
\* INVALID_PARAMETERS and the method is not executed; a value of page,
\* page_size or limit that cannot be coerced is replaced, and does not make
\* the call fail: without a date range the method is executed.
C10_UncoercibleDateRejected ==
    /\ (Answered /\ call.method \in ServiceMethods /\ DateUncoercible(call.params)) =>
            Rejected
    /\ (/\ Answered
        /\ call.method \in ServiceMethods
        /\ call.params.start_date = Missing
        /\ call.params.end_date = Missing) => call.executed

\* A call whose start date is written YYYY/MM/DD was rejected.
C10_BadDateRejected ==
    /\ Answered
    /\ call.method \in ServiceMethods
    /\ call.params.start_date.t = "str"
    /\ call.params.start_date.form = "YYYY/MM/DD"
    /\ Rejected

\* The value is a string that holds a date.
IsDate(v) == v # Missing /\ ParseDate(v).ok

\* C11: after date-range validation succeeded start_date and end_date are in
\* YYYY-MM-DD form, start_date is earlier than end_date and end_date is not
\* after the current date: an end date in the future was set to the current
\* date and a missing range to the last 30 days; with a start date after the
\* current date or after the end date validation fails.
C11_DateRangeValidated ==
    /\ (Answered /\ call.executed) =>
          /\ call.cleaned.start_date.form = "YYYY-MM-DD"
          /\ call.cleaned.end_date.form = "YYYY-MM-DD"
          /\ call.cleaned.start_date.day < call.cleaned.end_date.day
          /\ call.cleaned.end_date.day <= call.now
          /\ (IsDate(call.params.end_date) /\ call.params.end_date.day > call.now) =>
                call.cleaned.end_date.day = call.now
          /\ (IsDate(call.params.end_date) /\ call.params.end_date.day <= call.now) =>
                call.cleaned.end_date.day = call.params.end_date.day
          /\ IsDate(call.params.start_date) =>
                call.cleaned.start_date.day = call.params.start_date.day
          /\ (call.params.start_date = Missing /\ call.params.end_date = Missing) =>
                /\ call.cleaned.end_date.day = call.now
                /\ call.cleaned.start_date.day = call.now - 30
    /\ (/\ Answered
        /\ call.method \in ServiceMethods
        /\ IsDate(call.params.start_date)
        /\ \/ call.params.start_date.day > call.now
           \/ IsDate(call.params.end_date)
                /\ call.params.start_date.day > call.params.end_date.day) => Rejected

\* A range whose end date lies in the future was accepted and its end date
\* set to the current date.
C11_FutureEndAdjusted ==
    /\ Answered
    /\ call.executed
    /\ IsDate(call.params.end_date)
    /\ call.params.end_date.day > call.now
    /\ call.cleaned.end_date = DateStr("YYYY-MM-DD", call.now)

----------------------------------------------------------------------------
\* data_analysis_dashboard.html: handleDashboardData

\* JavaScript values; an object is a function from its field names.
JsUndefined == [t |-> "undefined"]
JsNull == [t |-> "null"]
JsBool(b) == [t |-> "boolean", b |-> b]
JsNum(n) == [t |-> "number", n |-> n]
JsStr(s) == [t |-> "string", s |-> s]
JsObj(o) == [t |-> "object", o |-> o]

\* The value as a condition: if (x), x && y, !x
JsTruthy(x) ==
    CASE x.t \in {"undefined", "null"} -> FALSE
      [] x.t = "boolean" -> x.b
      [] x.t = "number" -> x.n # 0
      [] x.t = "string" -> x.s # ""
      [] x.t = "object" -> TRUE

\* x.k
JsGet(x, k) == IF x.t = "object" /\ k \in DOMAIN x.o THEN x.o[k] ELSE JsUndefined

\* typeof x === 'object'
JsIsObject(x) == x.t \in {"object", "null"}

\* The object with the fields of f that are not undefined.
JsObjectOf(f) == JsObj([k \in {j \in DOMAIN f : f[j] # JsUndefined} |-> f[k]])

\* parseFloat(x || 0), parseInt(x || 0) for a number or a missing field
JsParseNumber(x) == IF JsTruthy(x) /\ x.t = "number" THEN x.n ELSE 0

validateAndNormalizeDashboardData(data) ==
    [total_sales |-> JsParseNumber(JsGet(data, "total_sales")),
     total_inventory_value |-> JsParseNumber(JsGet(data, "total_inventory_value")),
     total_inventory_items |-> JsParseNumber(JsGet(data, "total_inventory_items")),
     out_of_stock_items |-> JsParseNumber(JsGet(data, "out_of_stock_items")),
     total_purchases |-> JsParseNumber(JsGet(data, "total_purchases")),
     active_suppliers |-> JsParseNumber(JsGet(data, "active_suppliers"))]

\* The data handleDashboardData takes from the response: format 1, 2, 3 in
\* the order of the if-else chain, or null.
DashboardDataOf(response) ==
    IF JsTruthy(response) /\ JsTruthy(JsGet(response, "success"))
          /\ JsTruthy(JsGet(response, "data"))
    THEN JsGet(response, "data")
    ELSE IF JsTruthy(response) /\ JsIsObject(response) /\ ~JsTruthy(JsGet(response, "error"))
    THEN response
    ELSE IF JsTruthy(response) /\ JsTruthy(JsGet(response, "result"))
    THEN JsGet(response, "result")
    ELSE JsNull

\* What handleDashboardData does with a response: the data it uses and the
\* metric cards it generates from them, or the call of handleError.
handleDashboardData(response) ==
    LET dashboardData == DashboardDataOf(response)
    IN  IF JsTruthy(dashboardData)
        THEN [used |-> dashboardData,
              cards |-> <<validateAndNormalizeDashboardData(dashboardData)>>,
              handleError |-> FALSE]
        ELSE [used |-> JsNull, cards |-> <<>>, handleError |-> TRUE]

HandleDashboardData ==
    /\ call.fn = "handleDashboardData"
    /\ call.ret = Pending
    /\ call' = [call EXCEPT !.ret = handleDashboardData(call.response)]
    /\ UNCHANGED <<acts, env, settings, panels, providerPanel>>

\* The data a response may carry.
DashboardPayloads ==
    {JsObjectOf([total_sales |-> JsNum(n), active_suppliers |-> JsNum(2)]) : n \in 0..MaxAmount}

\* The responses: objects with any of the fields success, data, error,
\* result and total_sales, and values that are no objects.
DashboardResponses ==
    {JsObjectOf([success |-> s, data |-> d, error |-> e, result |-> r, total_sales |-> t]) :
        s \in {JsUndefined, JsBool(TRUE), JsBool(FALSE)},
        d \in {JsUndefined, JsNull} \cup DashboardPayloads,
        e \in {JsUndefined, JsNull, JsStr("database unavailable"),
               JsObjectOf([code |-> JsStr("DB_ERROR"), message |-> JsStr("database unavailable"),
                           details |-> JsStr("")])},
        r \in {JsUndefined} \cup DashboardPayloads,
        t \in {JsUndefined, JsNum(1)}}
    \cup {JsUndefined, JsNull, JsStr("text")}

InitFront ==
    /\ acts = <<>>
    /\ settings = DefaultSettings
    /\ env = InitialEnv
    /\ panels = <<>>
    /\ providerPanel = NoProviderPanel
    /\ call \in {[fn |-> "handleDashboardData", response |-> r, ret |-> Pending] :
                    r \in DashboardResponses}

SpecFront == InitFront /\ [][HandleDashboardData]_vars

\* The response was handled.
Handled == call.fn = "handleDashboardData" /\ call.ret # Pending

HasField(x, k) == x.t = "object" /\ k \in DOMAIN x.o

\* C12: handleDashboardData uses the right payload of each of the three
\* response formats: of {success: true, data: D} it uses D, of a plain data
\* object without an error field the object itself, of {result: D} it uses
\* D; a response with success = false and an error goes to the error handler
\* and no metric cards are generated.
C12_RightPayloadUsed ==
    Handled =>
        LET r == call.response IN
        /\ (JsGet(r, "success") = JsBool(TRUE) /\ JsGet(r, "data") \in DashboardPayloads) =>
              call.ret.used = JsGet(r, "data")
        /\ (r.t = "object" /\ DOMAIN r.o = {"total_sales"}) => call.ret.used = r
        /\ (r.t = "object" /\ DOMAIN r.o = {"result"}) => call.ret.used = JsGet(r, "result")
        /\ (JsGet(r, "success") = JsBool(FALSE) /\ JsTruthy(JsGet(r, "error"))
               /\ ~HasField(r, "result")) =>
              (call.ret.handleError /\ call.ret.cards = <<>>)

----------------------------------------------------------------------------
\* extension.ts: the directory of the Excel-to-JSON flow

ExtensionDocs == "<extensionPath>/docs"
WorkspaceDocs == "<workspaceFolder>/docs"
TempDir == "<tmpdir>/ims-viewer-data"

OutputModes == {"development", "temp", "custom"}

\* Values of imsViewer.customOutputPath and imsViewer.docsPath.
CustomOutputPaths == {"", "/data/out"}
DocsPaths == {"", "docs", "/srv/docs"}

\* path.isAbsolute
isAbsolute(p) == p \in {"/data/out", "/srv/docs", ExtensionDocs, WorkspaceDocs, TempDir}

\* getDocsDirectory: imsViewer.docsPath when it is an absolute path that
\* exists, else the docs directory of the workspace when it exists, else the
\* docs directory of the extension.  existing is the set of paths for which
\* fs.existsSync is true.
getDocsDirectory(config, workspace, existing) ==
    IF config.docsPath # "" /\ isAbsolute(config.docsPath) /\ config.docsPath \in existing
    THEN config.docsPath
    ELSE IF workspace /\ WorkspaceDocs \in existing THEN WorkspaceDocs
    ELSE ExtensionDocs

\* getOutputDirectory; no function of the extension calls it.
getOutputDirectory(config) ==
    IF config.customOutputPath # "" THEN config.customOutputPath
    ELSE IF config.outputMode = "temp" THEN TempDir
    ELSE ExtensionDocs

\* runExcelToJsonProcess up to its two runScript calls: the directory it
\* takes and the arguments it gives to parse_manager.py and to
\* generate_standard_material_table.py.
runExcelToJsonProcess(config, workspace, existing) ==
    LET docsDir == getDocsDirectory(config, workspace, existing)
    IN  [docsDir |-> docsDir,
         parse_manager |-> <<"excelPath", <<docsDir, "parsed_data.json">>>>,
         generate_standard_material_table |-> <<"--docs-dir", docsDir>>]

RunExcelToJsonProcess ==
    /\ call.fn = "runExcelToJsonProcess"
    /\ call.ret = Pending
    /\ call' = [call EXCEPT !.ret = runExcelToJsonProcess(call.config, call.workspace, call.existing)]
    /\ UNCHANGED <<acts, env, settings, panels, providerPanel>>

InitOut ==
    /\ acts = <<>>
    /\ settings = DefaultSettings
    /\ env = InitialEnv
    /\ panels = <<>>
    /\ providerPanel = NoProviderPanel
    /\ call \in {[fn |-> "runExcelToJsonProcess",
                   config |-> [outputMode |-> m, customOutputPath |-> c, docsPath |-> d],
                   workspace |-> w, existing |-> x, ret |-> Pending] :
                    m \in OutputModes, c \in CustomOutputPaths, d \in DocsPaths,
                    w \in BOOLEAN, x \in SUBSET {"/srv/docs", WorkspaceDocs}}

SpecOut == InitOut /\ [][RunExcelToJsonProcess]_vars

\* C13: the directory into which the Excel-to-JSON flow writes its JSON
\* files is selected by imsViewer.outputMode: the docs directory of the
\* extension for 'development', the system temporary directory for 'temp',
\* imsViewer.customOutputPath for 'custom'.
C13_DirectorySelectedByOutputMode ==
    (call.fn = "runExcelToJsonProcess" /\ call.ret # Pending) =>
        LET dir == call.ret.generate_standard_material_table[2]
            mode == call.config.outputMode
        IN  /\ call.ret.parse_manager[2][1] = dir
            /\ mode = "development" => dir = ExtensionDocs
            /\ mode = "temp" => dir = TempDir
            /\ mode = "custom" => dir = call.config.customOutputPath

----------------------------------------------------------------------------
\* The two flows

IsFlow(a) == a.src = "command" /\ a.cmd \in FlowCommands

\* C14: in the Excel-to-JSON flow and in the migration flow the second
\* script is started only after the first has closed with exit code 0; when a
\* step fails no later step is started, the success notification is not
\* shown and exactly one error notification is shown.
C14_StepsInOrder ==
    \A i \in ActionIndex :
        IsFlow(acts[i]) =>
            LET a == acts[i] IN
            /\ Len(a.procs) <= Len(FlowScripts(a.cmd))
            /\ \A k \in 1..Len(a.procs) : a.procs[k].script = FlowScripts(a.cmd)[k]
            /\ \A k \in 2..Len(a.procs) :
                    a.procs[k - 1].st = "closed" /\ a.procs[k - 1].out # "nonzero"
            /\ \A k \in 1..Len(a.procs) :
                    ProcFailed(a.procs[k]) => (k = Len(a.procs) /\ a.notes = <<"error">>)
            /\ (\E k \in 1..Len(a.notes) : a.notes[k] = "info") =>
                    /\ a.notes = <<"info">>
                    /\ Len(a.procs) = Len(FlowScripts(a.cmd))
                    /\ \A k \in 1..Len(a.procs) :
                            a.procs[k].st = "closed" /\ a.procs[k].out # "nonzero"

\* The first script of the migration flow closed with code 0, the second
\* could not be started and closed after its 'error': one error is shown.
C14_SecondStepFailed ==
    \E i \in ActionIndex :
        /\ IsFlow(acts[i])
        /\ acts[i].cmd = "ims.migrateToNewFormat"
        /\ Len(acts[i].procs) = 2
        /\ acts[i].procs[1].st = "closed"
        /\ acts[i].procs[1].out # "nonzero"
        /\ acts[i].procs[2].script = "verify_import.py"
        /\ acts[i].procs[2].st = "closed"
        /\ acts[i].procs[2].out = "nonzero"
        /\ acts[i].notes = <<"error">>

----------------------------------------------------------------------------
\* Table panel: from the delete button of a row to crud_operations.py

MaxRows == 2

RowIds == {JsStr("650a"), JsStr("650b"), JsStr("650c")}

\* currentData of the table webview: the rows displayed.
RowLists ==
    UNION {[1..n -> {JsObjectOf([_id |-> r, name |-> JsStr("n")]) : r \in RowIds}] : n \in 1..MaxRows}

\* JSON.stringify, given as the value its text stands for: a field whose
\* value is undefined is left out.
JSONstringify(x) ==
    IF x.t = "object"
    THEN JsObj([k \in {j \in DOMAIN x.o : x.o[j] # JsUndefined} |-> x.o[k]])
    ELSE x

\* deleteRecord(index) of the table webview: the message it sends when the
\* user confirms.
webviewDeleteRecord(currentData, index) ==
    JsObjectOf([command |-> JsStr("deleteRecord"),
                data |-> JsObjectOf([_id |-> JsGet(currentData[index], "_id")])])

\* case 'deleteRecord' of showTableDataPanel's onDidReceiveMessage: the data
\* it hands to handleCrudOperation.
deleteData(message) ==
    JsObj([k \in {"_id", "type"} |->
              IF k = "_id" THEN JsGet(message, "id") ELSE JsGet(message, "type")])

\* The arguments handleCrudOperation gives to crud_operations.py.
handleCrudOperationArgs(tableName, operation, data) ==
    <<"--table", tableName, "--operation", operation, "--data", JSONstringify(data)>>

\* The user presses the delete button of row index and answers the
\* confirmation.
deleteRecordClicked(c) ==
    IF c.confirm
    THEN LET message == webviewDeleteRecord(c.currentData, c.index)
         IN  [sent |-> message,
              args |-> handleCrudOperationArgs(c.tableName, "delete", deleteData(message))]
    ELSE [sent |-> JsUndefined, args |-> <<>>]

DeleteRecord ==
    /\ call.fn = "deleteRecord"
    /\ call.ret = Pending
    /\ call' = [call EXCEPT !.ret = deleteRecordClicked(call)]
    /\ UNCHANGED <<acts, env, settings, panels, providerPanel>>

InitTable ==
    /\ acts = <<>>
    /\ settings = DefaultSettings
    /\ env = InitialEnv
    /\ panels = <<Panel("table")>>
    /\ providerPanel = NoProviderPanel
    /\ call \in {[fn |-> "deleteRecord", tableName |-> t, currentData |-> d, index |-> i,
                   confirm |-> c, ret |-> Pending] :
                    t \in {"customers", "materials"}, d \in RowLists, i \in 1..MaxRows,
                    c \in BOOLEAN}
    /\ call.index <= Len(call.currentData)

SpecTable == InitTable /\ [][DeleteRecord]_vars

\* C15: when the user confirms the deletion of a row, crud_operations.py is
\* invoked with operation 'delete' and a data object whose _id is the _id of
\* the row selected in the webview.
C15_DeletesSelectedRow ==
    (call.fn = "deleteRecord" /\ call.ret # Pending /\ call.confirm) =>
        /\ Len(call.ret.args) = 6
        /\ call.ret.args[4] = "delete"
        /\ JsGet(call.ret.args[6], "_id") = JsGet(call.currentData[call.index], "_id")

----------------------------------------------------------------------------
\* Table panel: the message listener of the webview

NoEffect == [content |-> Absent, notification |-> Absent, type |-> Absent, closeModal |-> FALSE]

\* What the listener of the table webview does with a message: the content
\* it writes, the notification it shows and its type, and whether it closes
\* the edit dialog.  A field the message lacks reads as undefined.
tableWebviewListener(m) ==
    CASE m.cmd = "loading" ->
            [NoEffect EXCEPT !.content = IF m.data = "true" THEN "loading" ELSE Absent]
      [] m.cmd = "error" ->
            [NoEffect EXCEPT !.content = IF m.data = Absent THEN "undefined" ELSE m.data]
      [] m.cmd = "data" -> [NoEffect EXCEPT !.content = "table"]
      [] m.cmd = "operationResult" ->
            [NoEffect EXCEPT !.notification = IF m.message = Absent THEN "undefined" ELSE m.message,
                             !.type = IF m.success = "true" THEN "success" ELSE "error",
                             !.closeModal = (m.success = "true")]
      [] OTHER -> NoEffect

\* The messages handleCrudOperation has posted for a table operation: those
\* before the reload's first message.
CrudPosts(a) ==
    {k \in 1..Len(a.posts) : \A j \in 1..k : a.posts[j].cmd # "loading"}

\* C16: for add, update and delete the message handleCrudOperation posts
\* when the script has finished is one the webview's listener handles: the
\* user sees a success or failure notification with the reported message, and
\* the edit dialog is closed when the operation succeeded.
C16_ResultIsShown ==
    \A i \in ActionIndex :
        (acts[i].src = "table" /\ acts[i].cmd \in TableCrudMessages) =>
            \A k \in CrudPosts(acts[i]) :
                LET m == acts[i].posts[k]
                    shown == tableWebviewListener(m)
                IN  /\ shown.notification = m.message
                    /\ shown.notification # Absent
                    /\ shown.type = (IF m.success = "true" THEN "success" ELSE "error")
                    /\ m.success = "true" => shown.closeModal

----------------------------------------------------------------------------
\* Creation and disposal of the webview panels

\* The number of panels created, and of messages handled, while panels are
\* created and closed.
MaxPanels == 2
MaxPanelActions == 1

\* A show() that creates a panel whether or not the provider has one.
showAlwaysCreating(kind, ps, pp) ==
    [panels |-> Append(ps, Panel(kind)), providerPanel |-> [pp EXCEPT ![kind] = Len(ps) + 1]]

\* show() of MaterialWebviewProvider, CustomerManagementWebviewProvider,
\* SupplierManagementWebviewProvider and DataEntryWebviewProvider: reveal the
\* panel of the _panel field, or create one and keep it in the field.
show(kind, ps, pp) ==
    IF pp[kind] # 0
    THEN [panels |-> ps, providerPanel |-> pp]
    ELSE [panels |-> Append(ps, Panel(kind)), providerPanel |-> [pp EXCEPT ![kind] = Len(ps) + 1]]

\* showTableDataPanel, showBusinessViewPanel, showInventoryManagementPanel
\* and showDataAnalysisDashboard create a panel at every call.
showPanel(kind, ps, pp) == [panels |-> Append(ps, Panel(kind)), providerPanel |-> pp]

\* One of the show commands is invoked.
Show ==
    \E kind \in PanelKinds :
        LET shown == IF kind \in Providers THEN show(kind, panels, providerPanel)
                     ELSE showPanel(kind, panels, providerPanel)
        IN  /\ Len(shown.panels) <= MaxPanels
            /\ panels' = shown.panels
            /\ providerPanel' = shown.providerPanel
            /\ env' = IF kind = "table" THEN setDatabaseConfigEnv(env, settings) ELSE env
            /\ UNCHANGED <<acts, settings, call>>

\* The user closes a panel; the onDidDispose listener of a provider's panel
\* clears the _panel field.
Dispose ==
    \E id \in 1..Len(panels) :
        /\ ~panels[id].disposed
        /\ panels' = [panels EXCEPT ![id].disposed = TRUE]
        /\ providerPanel' = IF panels[id].kind \in Providers
                             THEN [providerPanel EXCEPT ![panels[id].kind] = 0]
                             ELSE providerPanel
        /\ UNCHANGED <<acts, env, settings, call>>

ReceivePanels == ReceiveUpTo(MaxPanelActions)

InitPanels ==
    /\ acts = <<>>
    /\ settings = DefaultSettings
    /\ env = InitialEnv
    /\ panels = <<>>
    /\ providerPanel = NoProviderPanel
    /\ call = NoCall

NextPanels == Show \/ Dispose \/ ReceivePanels \/ ProcError \/ ProcClose \/ ExecDone

SpecPanels == InitPanels /\ [][NextPanels]_vars

\* Panels are shown and closed while no request is made.
NextShow == Show \/ Dispose

SpecShow == InitPanels /\ [][NextShow]_vars

\* C17: after any sequence of show() calls and disposals at most one panel
\* of each provider exists, and it is the one in the provider's _panel field:
\* show() creates a panel only when the provider has none, and after a
\* disposal the next show() creates a new one.
C17_AtMostOnePanel ==
    \A p \in Providers :
        /\ Cardinality(OpenPanels(p)) <= 1
        /\ OpenPanels(p) = IF providerPanel[p] = 0 THEN {} ELSE {providerPanel[p]}

\* A provider's panel was disposed and a later show() has created a new one.
C17_CreatedAgainAfterDispose ==
    \E p \in Providers :
        \E old \in 1..Len(panels) :
            /\ panels[old].kind = p
            /\ panels[old].disposed
            /\ providerPanel[p] > old
            /\ OpenPanels(p) = {providerPanel[p]}

\* The panel a message posted for action a goes to: the _panel field of the
\* provider, or the panel whose webview sent the request.
PostTarget(a) == IF a.src \in Providers THEN providerPanel[a.src] ELSE a.inp.panel

\* C18: no message is posted to a panel after it has been disposed, also
\* when the panel is closed while the script of one of its requests runs and
\* the script's close or error callback fires afterwards.
C18_NoPostAfterDispose ==
    [][\A i \in 1..Len(acts) :
          Len(acts'[i].posts) > Len(acts[i].posts) =>
              /\ PostTarget(acts[i]) # 0
              /\ ~panels[PostTarget(acts[i])].disposed]_vars

----------------------------------------------------------------------------
\* The loading indicator of the table and view panels

\* The positions in a's posts of the messages with a command and a data.
PostsOf(a, cmd, data) ==
    {k \in 1..Len(a.posts) : a.posts[k].cmd = cmd /\ (data # Absent => a.posts[k].data = data)}

\* C19: when the script of loadTableData or loadBusinessViewData has ended
\* or could not be started, 'loading: true' has been followed by 'loading:
\* false' and by exactly one terminal message ('data' or 'error'), and at no
\* time by more than one.
C19_LoadingEnds ==
    \A i \in ActionIndex :
        (/\ acts[i].src \in {"table", "view"}
         /\ acts[i].cmd \in TableLoadMessages \cup ViewMessages
         /\ PostsOf(acts[i], "loading", "true") # {}) =>
            LET a == acts[i]
                terminal == PostsOf(a, "data", Absent) \cup PostsOf(a, "error", Absent)
            IN  /\ Cardinality(terminal) <= 1
                /\ Last(a.procs).st = "closed" =>
                        /\ PostsOf(a, "loading", "false") # {}
                        /\ Cardinality(terminal) = 1

----------------------------------------------------------------------------
\* The responses to the dashboard's requests

IsDashboardRequest(a) == a.src = "dashboard" /\ a.cmd \in DashboardRequests

\* The script of a could not be started, exited with a code other than 0,
\* printed nothing or printed text that is not JSON.
ScriptFailed(a) ==
    \/ Last(a.procs).st = "errored"
    \/ Last(a.procs).st = "closed" /\ Last(a.procs).out \in {"nonzero", "empty", "garbage"}

\* The request has one response, with the command of its type; it is a
\* failure with an error text when the script failed or mustFail holds.
OneResponse(a, mustFail) ==
    /\ Len(a.posts) <= 1
    /\ \A k \in 1..Len(a.posts) : a.posts[k].cmd = DashboardResponse(a.cmd)
    /\ Last(a.procs).st # "running" =>
            /\ Len(a.posts) = 1
            /\ (ScriptFailed(a) \/ mustFail) =>
                    (a.posts[1].success = "false" /\ a.posts[1].error = "string")

----------------------------------------------------------------------------
\* The IMS_* variables after setDatabaseConfigEnv

\* The value a variable has when it reflects a setting that may be empty.
SettingOrAbsent(v) == IF v = "" THEN Absent ELSE v

\* The IMS_* variables of e reflect the settings s.
ReflectsSettings(e, s) ==
    /\ e.IMS_DB_NAME = getDatabaseName(s)
    /\ e.IMS_MONGO_URI = s.mongoUri
    /\ e.IMS_MONGO_USERNAME = SettingOrAbsent(s.mongoUsername)
    /\ e.IMS_MONGO_PASSWORD = SettingOrAbsent(s.mongoPassword)
    /\ e.IMS_MONGO_AUTH_DB = SettingOrAbsent(s.mongoAuthDatabase)

\* The step calls setDatabaseConfigEnv: a table panel is created, or an
\* action arrives whose handler calls it.
CallsSetDatabaseConfigEnv ==
    \/ Len(panels') > Len(panels) /\ panels'[Len(panels')].kind = "table"
    \/ Len(acts') > Len(acts) /\ SetsEnv(acts'[Len(acts')])

\* C21: after setDatabaseConfigEnv returns, whatever settings changes and
\* calls came before, IMS_DB_NAME, IMS_MONGO_URI, IMS_MONGO_USERNAME,
\* IMS_MONGO_PASSWORD and IMS_MONGO_AUTH_DB reflect the current settings:
\* each equals the configured value, and the username, password and
\* auth-database variables are absent when their setting is empty.
C21_EnvReflectsSettings ==
    [][CallsSetDatabaseConfigEnv => ReflectsSettings(env', settings')]_vars

====
